---- MODULE Spec2Model ----
(***************************************************************************)
(* A model of structraw: the binary struct codec of src/serializer.go,     *)
(* src/errors.go (errors and the per-field marshal/unmarshal functions)    *)
(* and src/struct_len.go.                                                  *)
(*                                                                         *)
(* Three specifications share the module:                                  *)
(*   SpecTag   - newFieldTag applied to every tag string over a small      *)
(*               alphabet and every field kind;                            *)
(*   SpecCodec - one goroutine calling MarshalToWriter / Marshal,          *)
(*               UnmarshalFromReader / Unmarshal and StructLen on one      *)
(*               record type, field by field, against bytes.Buffer or an   *)
(*               arbitrary io.Writer / io.Reader;                          *)
(*   Spec      - several goroutines racing through getMarshaler /          *)
(*               getUnmarshaler and the SafeMap behind them.               *)
(***************************************************************************)
EXTENDS Integers, Sequences, FiniteSets, TLC

(***************************************************************************)
(* Bounds of the model.                                                    *)
(***************************************************************************)
\* longest tag string (in characters) handed to newFieldTag in SpecTag
MaxTagLen == 5
\* most fields of a record type in SpecCodec
MaxFields == 2
\* longest []byte field value
MaxSliceLen == 2
\* goroutines of Spec
NumProcs == 2
\* calls each goroutine of Spec makes
MaxCalls == 2

(***************************************************************************)
(* Errors.  An error value is its sentinel (what errors.Is matches         *)
(* through the %w chain) and whether fmt.Errorf wrapped it, so that "the   *)
(* same error value" and "an error matching X" are different things.       *)
(***************************************************************************)
Nil == [base |-> "nil", wrapped |-> FALSE]
ErrTagFormat == [base |-> "ErrTagFormat", wrapped |-> FALSE]
ErrReadData == [base |-> "ErrReadData", wrapped |-> FALSE]
ErrInvalidType == [base |-> "ErrInvalidType", wrapped |-> FALSE]
ErrWriteDataLen == [base |-> "ErrWriteDataLen", wrapped |-> FALSE]
\* io.EOF, what bytes.Buffer.Read returns on an empty buffer
EOF == [base |-> "EOF", wrapped |-> FALSE]
\* a failure of the caller's own sink or source
ErrIO == [base |-> "ErrIO", wrapped |-> FALSE]

\* fmt.Errorf("...%w...", e): a new error value that still matches e
Errorf(e) == [base |-> e.base, wrapped |-> TRUE]
\* errors.Is(e, target)
Is(e, target) == e.base = target.base

Taxonomy == {ErrInvalidType, ErrTagFormat, ErrReadData, ErrWriteDataLen}

(***************************************************************************)
(* Field kinds, struct fields and record types.                            *)
(***************************************************************************)
UintKinds == {"uint8", "uint16", "uint32", "uint64"}
Kinds == UintKinds \cup {"array", "slice", "int32"}

\* a reflect.StructField: kind, element kind and length (arrays, slices),
\* the structraw tag (a string, as a sequence of characters) and whether
\* the field is exported (PkgPath == "")
Field(kind, elem, len, tag, exported) ==
    [kind |-> kind, elem |-> elem, len |-> len, tag |-> tag, exported |-> exported]

TagBE == <<"b", "e">>
TagLE == <<"l", "e">>

(***************************************************************************)
(* newFieldTag: the byte-order resolver.                                   *)
(***************************************************************************)
RECURSIVE SplitFrom(_, _, _)
SplitFrom(s, cur, acc) ==
    IF s = <<>> THEN Append(acc, cur)
    ELSE IF Head(s) = "," THEN SplitFrom(Tail(s), <<>>, Append(acc, cur))
    ELSE SplitFrom(Tail(s), Append(cur, Head(s)), acc)

\* strings.Split(tag, ","): always at least one token, "" for an empty tag
Split(tag) == SplitFrom(tag, <<>>, <<>>)

NilUo == [isNil |-> TRUE, NeedEndian |-> FALSE, BitSize |-> 0]
UintOptions(needEndian, bitSize) ==
    [isNil |-> FALSE, NeedEndian |-> needEndian, BitSize |-> bitSize]

parseUintOptions(kind) ==
    CASE kind = "uint8" -> UintOptions(FALSE, 1)
      [] kind = "uint16" -> UintOptions(TRUE, 2)
      [] kind = "uint32" -> UintOptions(TRUE, 4)
      [] kind = "uint64" -> UintOptions(TRUE, 8)
      [] OTHER -> NilUo

\* the token loop of newFieldTag; endian is "nil", "BigEndian" or "LittleEndian"
RECURSIVE TagTokens(_, _)
TagTokens(ls, endian) ==
    IF ls = <<>> THEN [err |-> Nil, endian |-> endian]
    ELSE LET l == Head(ls) IN
         CASE l = <<>> -> TagTokens(Tail(ls), endian)
           [] l \in {TagBE, TagLE} ->
                IF endian # "nil"
                THEN [err |-> Errorf(ErrTagFormat), endian |-> "nil"]
                ELSE TagTokens(Tail(ls),
                               IF l = TagBE THEN "BigEndian" ELSE "LittleEndian")
           [] OTHER -> [err |-> Errorf(ErrTagFormat), endian |-> "nil"]

\* a byte order demanded of every unsigned integer, uint8 included
EndianRequiredOfAnyUint(uo, endian) ==
    (~uo.isNil) /\ endian = "nil"

EndianRequired(uo, endian) ==
    (~uo.isNil) /\ uo.NeedEndian /\ endian = "nil"

newFieldTag(tag, uo) ==
    LET t == TagTokens(Split(tag), "nil") IN
    IF t.err # Nil THEN t
    ELSE IF EndianRequired(uo, t.endian)
         THEN [err |-> Errorf(ErrTagFormat), endian |-> "nil"]
         ELSE t

(***************************************************************************)
(* Byte order: encoding/binary's PutUintN / UintN, and putUint / getUint.  *)
(* A call of the sink's Write or the source's Read is modelled by its      *)
(* response: wr = [n, err] for Write(p), rr = [n, err, data] for Read(p),  *)
(* data being the n bytes the source put into p.                           *)
(***************************************************************************)
\* An unsigned integer value is modelled as its base-256 numeral, the
\* sequence of its bytes, most significant first: TLC's integers are 32
\* bits wide and a uint64 does not fit.  Uint(n, size) is the numeral of
\* the number n in `size` bytes.
RECURSIVE Uint(_, _)
Uint(n, size) ==
    IF size = 0 THEN <<>>
    ELSE Append(Uint(n \div 256, size - 1), n % 256)

Reverse(s) == [i \in 1..Len(s) |-> s[Len(s) + 1 - i]]

\* uint16(ui), uint32(ui), byte(ui): the low `size` bytes of ui
LowBytes(ui, size) ==
    [i \in 1..size |->
        IF Len(ui) - size + i >= 1 THEN ui[Len(ui) - size + i] ELSE 0]

\* a putUint that lays every integer out most significant byte first
PutUintBytesBigEndianOnly(ui, endian, bitSize) ==
    SubSeq(ui, Len(ui) - bitSize + 1, Len(ui))

\* endian.PutUint16/32/64(b[:bitSize], ui); byte(ui) for bitSize 1
PutUintBytes(ui, endian, bitSize) ==
    IF bitSize = 1 THEN LowBytes(ui, 1)
    ELSE IF endian = "BigEndian" THEN LowBytes(ui, bitSize)
    ELSE Reverse(LowBytes(ui, bitSize))

\* endian.Uint16/32/64(b[:bitSize]); uint64(b[0]) for bitSize 1
UintOfBytes(b, endian, bitSize) ==
    IF bitSize = 1 THEN <<b[1]>>
    ELSE IF endian = "BigEndian" THEN b
    ELSE Reverse(b)

\* a call's outcome: the count, the error, and the panic message if it panicked
Ret(n, err) == [n |-> n, err |-> err, panic |-> ""]
Panic(msg) == [n |-> 0, err |-> Nil, panic |-> msg]

\* the panics putUint and getUint raise before any I/O
UintPanic(endian, bitSize) ==
    IF bitSize > 1 /\ endian = "nil" THEN "endianness bitSize is too large"
    ELSE IF bitSize \notin {1, 2, 4, 8} THEN "invalid bitSize"
    ELSE ""

\* a putUint that reports a failed write as a short one
putUintMasksWriteError(ui, endian, bitSize, wr) ==
    IF wr.err # Nil \/ wr.n # bitSize THEN Ret(0, Errorf(ErrWriteDataLen))
    ELSE Ret(wr.n, Nil)

\* putUint after w.Write(b[:bitSize]) answered wr
putUint(ui, endian, bitSize, wr) ==
    IF wr.err # Nil THEN Ret(0, Errorf(wr.err))
    ELSE IF wr.n # bitSize THEN Ret(0, Errorf(ErrWriteDataLen))
    ELSE Ret(wr.n, Nil)

\* a getUint that takes whatever r.Read delivered
getUintAcceptsShort(endian, bitSize, rr) ==
    IF rr.err # Nil THEN [u |-> <<>>, n |-> 0, err |-> Errorf(rr.err)]
    ELSE [u |-> rr.data, n |-> rr.n, err |-> Nil]

\* getUint after r.Read(b[:bitSize]) answered rr: [u, n, err]
getUint(endian, bitSize, rr) ==
    IF rr.err # Nil THEN [u |-> <<>>, n |-> 0, err |-> Errorf(rr.err)]
    ELSE IF rr.n # bitSize THEN [u |-> <<>>, n |-> 0, err |-> Errorf(ErrReadData)]
    ELSE [u |-> UintOfBytes(rr.data, endian, bitSize), n |-> bitSize, err |-> Nil]

\* valueByteArrayToByteSlice(value): value.Index(0) panics on a zero-length
\* array, .Addr() panics on a value that is not addressable
valueByteArrayToByteSlice(v, addressable) ==
    IF Len(v) = 0 THEN [panic |-> "reflect: array index out of range", b |-> <<>>]
    ELSE IF ~addressable
         THEN [panic |-> "reflect.Value.Addr of unaddressable value", b |-> <<>>]
         ELSE [panic |-> "", b |-> v]

(***************************************************************************)
(* The field-operation factory.  A marshalFunc / unmarshalFunc is a        *)
(* closure; it is modelled by which closure it is and what it captured.    *)
(***************************************************************************)
NilFunc == [case |-> "nil", isArray |-> FALSE, endian |-> "nil", BitSize |-> 0]
UintFunc(uo, tag) ==
    [case |-> "uint", isArray |-> FALSE, endian |-> tag.endian, BitSize |-> uo.BitSize]
BytesFunc(field) ==
    [case |-> "bytes", isArray |-> (field.kind = "array"), endian |-> "nil", BitSize |-> 0]

\* a factory whose default case hands out the integer closure
newMarshalFuncAcceptsAnyKind(field, uo, tag) ==
    IF field.kind \in {"array", "slice"} /\ field.elem # "uint8"
    THEN [err |-> Errorf(ErrInvalidType), fn |-> NilFunc]
    ELSE IF field.kind \in {"array", "slice"} THEN [err |-> Nil, fn |-> BytesFunc(field)]
    ELSE [err |-> Nil, fn |-> UintFunc(uo, tag)]

newMarshalFunc(field, uo, tag) ==
    CASE field.kind \in UintKinds -> [err |-> Nil, fn |-> UintFunc(uo, tag)]
      [] field.kind \in {"array", "slice"} ->
            IF field.elem # "uint8"
            THEN [err |-> Errorf(ErrInvalidType), fn |-> NilFunc]
            ELSE [err |-> Nil, fn |-> BytesFunc(field)]
      [] OTHER -> [err |-> Errorf(ErrInvalidType), fn |-> NilFunc]

newUnmarshalFunc(field, uo, tag) ==
    CASE field.kind \in UintKinds -> [err |-> Nil, fn |-> UintFunc(uo, tag)]
      [] field.kind \in {"array", "slice"} ->
            IF field.elem # "uint8"
            THEN [err |-> Errorf(ErrInvalidType), fn |-> NilFunc]
            ELSE [err |-> Nil, fn |-> BytesFunc(field)]
      [] OTHER -> [err |-> Errorf(ErrInvalidType), fn |-> NilFunc]

\* newFieldMarshaler: the tag is resolved before the kind is looked at
newFieldMarshaler(field) ==
    LET uo == parseUintOptions(field.kind)
        tag == newFieldTag(field.tag, uo)
    IN  IF tag.err # Nil THEN [err |-> tag.err, fn |-> NilFunc]
        ELSE newMarshalFunc(field, uo, tag)

newFieldUnmarshaler(field) ==
    LET uo == parseUintOptions(field.kind)
        tag == newFieldTag(field.tag, uo)
    IN  IF tag.err # Nil THEN [err |-> tag.err, fn |-> NilFunc]
        ELSE newUnmarshalFunc(field, uo, tag)

\* the buffer a marshalFunc hands to w.Write, or the panic raised before it
MarshalWriteArg(fn, v, addressable) ==
    IF fn.case = "uint"
    THEN [panic |-> UintPanic(fn.endian, fn.BitSize),
          b |-> PutUintBytes(v, fn.endian, fn.BitSize)]
    ELSE IF fn.isArray THEN valueByteArrayToByteSlice(v, addressable)
         ELSE [panic |-> "", b |-> v]

\* closures that take a short write for a full one
marshalFuncAcceptsShort(fn, v, wr) ==
    IF wr.err # Nil THEN Ret(0, IF fn.case = "uint" THEN Errorf(wr.err) ELSE wr.err)
    ELSE Ret(wr.n, Nil)

\* a marshalFunc after w.Write answered wr
marshalFunc(fn, v, wr) ==
    IF fn.case = "uint" THEN putUint(v, fn.endian, fn.BitSize, wr)
    ELSE IF wr.err # Nil THEN Ret(0, wr.err)
    ELSE IF wr.n # Len(v) THEN Ret(0, Errorf(ErrWriteDataLen))
    ELSE Ret(wr.n, Nil)

\* a closure that reads a buffer of fixed size, whatever the destination's
UnmarshalReadLenFixed(fn, v) ==
    IF fn.case = "uint" THEN fn.BitSize ELSE MaxSliceLen

\* the length an unmarshalFunc asks r.Read for
UnmarshalReadLen(fn, v) ==
    IF fn.case = "uint" THEN fn.BitSize ELSE Len(v)

\* a byte-sequence closure that copies what it got before it checks the count
unmarshalFuncCopiesFirst(fn, v, rr) ==
    IF fn.case = "uint"
    THEN LET g == getUint(fn.endian, fn.BitSize, rr) IN
         IF g.err # Nil THEN [n |-> 0, err |-> g.err, panic |-> "", val |-> v]
         ELSE [n |-> g.n, err |-> Nil, panic |-> "", val |-> g.u]
    ELSE IF rr.err # Nil THEN [n |-> 0, err |-> rr.err, panic |-> "", val |-> v]
    ELSE IF rr.n # Len(v)
         THEN [n |-> 0, err |-> ErrReadData, panic |-> "",
               val |-> rr.data \o SubSeq(v, rr.n + 1, Len(v))]
    ELSE [n |-> Len(v), err |-> Nil, panic |-> "", val |-> rr.data]

\* an unmarshalFunc after r.Read answered rr; v is the field's value before,
\* val the value after
unmarshalFunc(fn, v, rr) ==
    IF fn.case = "uint"
    THEN LET g == getUint(fn.endian, fn.BitSize, rr) IN
         IF g.err # Nil THEN [n |-> 0, err |-> g.err, panic |-> "", val |-> v]
         ELSE [n |-> g.n, err |-> Nil, panic |-> "", val |-> g.u]
    ELSE IF rr.err # Nil THEN [n |-> 0, err |-> rr.err, panic |-> "", val |-> v]
    ELSE IF rr.n # Len(v) THEN [n |-> 0, err |-> ErrReadData, panic |-> "", val |-> v]
    ELSE IF fn.isArray /\ valueByteArrayToByteSlice(v, TRUE).panic # ""
         THEN [n |-> 0, err |-> Nil,
               panic |-> valueByteArrayToByteSlice(v, TRUE).panic, val |-> v]
         ELSE [n |-> Len(v), err |-> Nil, panic |-> "", val |-> rr.data]

(***************************************************************************)
(* The type-plan builder.  A record type is the sequence of its fields; a  *)
(* plan (a marshaler or unmarshaler) is a pointer ptr to its two slices.    *)
(***************************************************************************)
NilPlan == [ptr |-> 0, fieldIndex |-> <<>>, fieldFunc |-> <<>>]

RECURSIVE newMarshalerFrom(_, _, _)
newMarshalerFrom(t, i, mc) ==
    IF i > Len(t) THEN [err |-> Nil, plan |-> mc]
    ELSE IF ~t[i].exported THEN newMarshalerFrom(t, i + 1, mc)
    ELSE LET fm == newFieldMarshaler(t[i]) IN
         IF fm.err # Nil THEN [err |-> fm.err, plan |-> NilPlan]
         ELSE newMarshalerFrom(t, i + 1,
                  [mc EXCEPT !.fieldIndex = Append(@, i),
                             !.fieldFunc = Append(@, fm.fn)])

\* a builder that skips nothing but reports no error: the plan of a type
\* with a bad field comes back empty and without an error
newMarshalerSwallowsError(t, ptr) ==
    LET mc == [ptr |-> ptr, fieldIndex |-> <<>>, fieldFunc |-> <<>>]
        b == newMarshalerFrom(t, 1, mc)
    IN  IF b.err # Nil THEN [err |-> Nil, plan |-> mc] ELSE b

\* newMarshaler(typ); ptr is the address of the marshaler it allocates
newMarshaler(t, ptr) ==
    newMarshalerFrom(t, 1, [ptr |-> ptr, fieldIndex |-> <<>>, fieldFunc |-> <<>>])

RECURSIVE newUnmarshalerFrom(_, _, _)
newUnmarshalerFrom(t, i, uc) ==
    IF i > Len(t) THEN [err |-> Nil, plan |-> uc]
    ELSE IF ~t[i].exported THEN newUnmarshalerFrom(t, i + 1, uc)
    ELSE LET fu == newFieldUnmarshaler(t[i]) IN
         IF fu.err # Nil THEN [err |-> fu.err, plan |-> NilPlan]
         ELSE newUnmarshalerFrom(t, i + 1,
                  [uc EXCEPT !.fieldIndex = Append(@, i),
                             !.fieldFunc = Append(@, fu.fn)])

newUnmarshaler(t, ptr) ==
    newUnmarshalerFrom(t, 1, [ptr |-> ptr, fieldIndex |-> <<>>, fieldFunc |-> <<>>])

(***************************************************************************)
(* StructLen.                                                              *)
(***************************************************************************)
\* a length table that takes uint64 for four bytes
fieldLenShortUint64(field, v) ==
    CASE field.kind \in {"uint8"} -> [n |-> 1, err |-> Nil]
      [] field.kind = "uint16" -> [n |-> 2, err |-> Nil]
      [] field.kind \in {"uint32", "uint64"} -> [n |-> 4, err |-> Nil]
      [] field.kind \in {"array", "slice"} -> [n |-> Len(v), err |-> Nil]
      [] OTHER -> [n |-> 0, err |-> Errorf(ErrInvalidType)]

fieldLen(field, v) ==
    CASE field.kind = "uint8" -> [n |-> 1, err |-> Nil]
      [] field.kind = "uint16" -> [n |-> 2, err |-> Nil]
      [] field.kind = "uint32" -> [n |-> 4, err |-> Nil]
      [] field.kind = "uint64" -> [n |-> 8, err |-> Nil]
      [] field.kind \in {"array", "slice"} -> [n |-> Len(v), err |-> Nil]
      [] OTHER -> [n |-> 0, err |-> Errorf(ErrInvalidType)]

RECURSIVE structLenFrom(_, _, _, _)
structLenFrom(t, val, i, fl) ==
    IF i > Len(t) THEN [n |-> fl, err |-> Nil]
    ELSE IF ~t[i].exported THEN structLenFrom(t, val, i + 1, fl)
    ELSE LET l == fieldLen(t[i], val[i]) IN
         IF l.err # Nil THEN [n |-> 0, err |-> l.err]
         ELSE structLenFrom(t, val, i + 1, fl + l.n)

structLen(t, val) == structLenFrom(t, val, 1, 0)

(***************************************************************************)
(* SafeMap: the Go map behind the plan caches, as a function whose domain  *)
(* is the set of keys present.                                             *)
(***************************************************************************)
EmptyMap == [k \in {} |-> NilPlan]

\* a lookup that never finds its key
MapGetMisses(m, key) == [val |-> NilPlan, ok |-> FALSE]

\* val, ok := sm.m[key]
MapGet(m, key) ==
    IF key \in DOMAIN m THEN [val |-> m[key], ok |-> TRUE]
    ELSE [val |-> NilPlan, ok |-> FALSE]

\* a publish that overwrites: the last writer wins
StoreAlways(m, key, val) ==
    [m |-> (key :> val) @@ [k \in DOMAIN m \ {key} |-> m[k]],
     actual |-> val, loaded |-> FALSE]

\* a publish that hands the loser of the race nothing
LoadOrStoreDropsLoser(m, key, val) ==
    IF key \in DOMAIN m THEN [m |-> m, actual |-> NilPlan, loaded |-> TRUE]
    ELSE [m |-> (key :> val) @@ m, actual |-> val, loaded |-> FALSE]

\* the body of LoadOrStore under the lock: [m, actual, loaded]
LoadOrStore(m, key, val) ==
    IF key \in DOMAIN m THEN [m |-> m, actual |-> m[key], loaded |-> TRUE]
    ELSE [m |-> (key :> val) @@ m, actual |-> val, loaded |-> FALSE]

(***************************************************************************)
(* State.                                                                  *)
(***************************************************************************)
VARIABLES
    \* the two package-level plan caches (the maps inside the SafeMaps) and
    \* the address the next allocated plan gets
    marshalCache, unmarshalCache, nextPtr,
    \* SpecTag: the tag and kind under test, and what newFieldTag returned
    tagIn, tagOut,
    \* SpecCodec: the record type under test and the call in progress
    typ,        \* the record type (a sequence of fields)
    op,         \* "none", "marshal", "unmarshal", "structlen"
    pc,         \* "idle", "marshal", "unmarshal", "done"
    shape,      \* what the argument s is: "struct", "ptr", "nilptr", "ptrToInt", "int"
    value,      \* the record's field values (the destination's, while decoding)
    value0,     \* the record's field values when the call began
    plan,       \* the plan getMarshaler / getUnmarshaler returned
    idx,        \* the loop index of marshaler.marshal / unmarshaler.unmarshal
    cnt,        \* the loop's running count n
    wmode,      \* the sink: "buffer" (Marshal's bytes.Buffer) or "writer"
    sink,       \* the bytes the sink has accepted
    rmode,      \* the source: "buffer" (Unmarshal's bytes.Buffer) or "reader"
    src,        \* the bytes the source still holds
    src0,       \* the bytes the source held when the call began
    ioCalls,    \* Write / Read calls made by the call in progress
    io,         \* the latest of them: bytes asked for, bytes moved, its error
    res,        \* what the call returned: [n, err, panic]
    last,       \* the last successful Marshal: its record and its bytes
    \* Spec: the goroutines and the two RWMutexes
    gpc,        \* where each goroutine stands in its call
    gcall,      \* its call: the operation, the record type, whether it built a plan
    gcand,      \* the candidate plan it built (m, u)
    gret,       \* the plan getMarshaler / getUnmarshaler returned to it (c)
    gres,       \* what its Marshal / Unmarshal returned
    gcalls,     \* the calls it has made
    mu,         \* the RWMutex of each SafeMap: readers inside, the writer
    published   \* every plan ever written into a map: [op, typ, ptr]

cacheVars == <<marshalCache, unmarshalCache, nextPtr>>
tagVars == <<tagIn, tagOut>>
codecVars == <<typ, op, pc, shape, value, value0, plan, idx, cnt, wmode, sink,
               rmode, src, src0, ioCalls, io, res, last>>
procVars == <<gpc, gcall, gcand, gret, gres, gcalls, mu, published>>
vars == <<cacheVars, tagVars, codecVars, procVars>>

Min(a, b) == IF a < b THEN a ELSE b

\* all sequences over S of length at most n
RECURSIVE SeqsUpTo(_, _)
SeqsUpTo(S, n) ==
    IF n = 0 THEN {<<>>}
    ELSE LET shorter == SeqsUpTo(S, n - 1) IN
         shorter \cup {Append(q, x) : q \in {t \in shorter : Len(t) = n - 1}, x \in S}

(***************************************************************************)
(* Initial values of the parts a specification does not use.               *)
(***************************************************************************)
NoIO == [want |-> 0, n |-> 0, err |-> Nil]
NoLast == [ok |-> FALSE, v |-> <<>>, out |-> <<>>]

CacheInit ==
    /\ marshalCache = EmptyMap
    /\ unmarshalCache = EmptyMap
    /\ nextPtr = 1

TagIdle ==
    /\ tagIn = [tag |-> <<>>, kind |-> "uint8"]
    /\ tagOut = [done |-> FALSE, err |-> Nil, endian |-> "nil"]

CodecIdle ==
    /\ op = "none"
    /\ pc = "idle"
    /\ shape = "ptr"
    /\ value = <<>>
    /\ value0 = <<>>
    /\ plan = NilPlan
    /\ idx = 0
    /\ cnt = 0
    /\ wmode = "buffer"
    /\ sink = <<>>
    /\ rmode = "buffer"
    /\ src = <<>>
    /\ src0 = <<>>
    /\ ioCalls = 0
    /\ io = NoIO
    /\ res = Ret(0, Nil)

Procs == 1..NumProcs

NoCall == [op |-> "none", typ |-> <<>>, built |-> FALSE]
NoOut == [n |-> 0, err |-> Nil, panic |-> "", out |-> <<>>]
Unlocked == [readers |-> {}, writer |-> 0, held |-> FALSE]

ProcIdle ==
    /\ gpc = [p \in Procs |-> "idle"]
    /\ gcall = [p \in Procs |-> NoCall]
    /\ gcand = [p \in Procs |-> NilPlan]
    /\ gret = [p \in Procs |-> NilPlan]
    /\ gres = [p \in Procs |-> NoOut]
    /\ gcalls = [p \in Procs |-> 0]
    /\ mu = [c \in {"marshal", "unmarshal"} |-> Unlocked]
    /\ published = {}

(***************************************************************************)
(* SpecTag: newFieldTag on every tag over TagAlphabet, for every kind.     *)
(***************************************************************************)
TagAlphabet == {"b", "e", "l", ","}
Tags == SeqsUpTo(TagAlphabet, MaxTagLen)

InitTag ==
    /\ CacheInit /\ CodecIdle /\ ProcIdle
    /\ typ = <<>>
    /\ last = NoLast
    /\ tagIn \in [tag : Tags, kind : Kinds]
    /\ tagOut = [done |-> FALSE, err |-> Nil, endian |-> "nil"]

\* newFieldTag(field.Name, field.Tag.Get(FieldTagName), parseUintOptions(kind))
ResolveTag ==
    /\ ~tagOut.done
    /\ LET t == newFieldTag(tagIn.tag, parseUintOptions(tagIn.kind)) IN
       tagOut' = [done |-> TRUE, err |-> t.err, endian |-> t.endian]
    /\ UNCHANGED <<tagIn, cacheVars, codecVars, procVars>>

NextTag == ResolveTag

SpecTag == InitTag /\ [][NextTag]_vars

(***************************************************************************)
(* SpecCodec: inputs.                                                      *)
(***************************************************************************)
\* the fields record types are made of: every supported kind, a zero-length
\* and a non-empty byte array, and the ways a field can be rejected or skipped
FieldPool ==
    { Field("uint8", "", 0, <<>>, TRUE),
      Field("uint16", "", 0, TagBE, TRUE),
      Field("uint16", "", 0, TagLE, TRUE),
      Field("uint32", "", 0, TagLE, TRUE),
      Field("uint64", "", 0, TagBE, TRUE),
      Field("array", "uint8", 0, <<>>, TRUE),
      Field("array", "uint8", MaxSliceLen, <<>>, TRUE),
      Field("slice", "uint8", 0, <<>>, TRUE),
      Field("uint16", "", 0, <<>>, TRUE),          \* byte order missing
      Field("int32", "", 0, <<>>, TRUE),           \* unsupported kind
      Field("slice", "uint16", 0, <<>>, TRUE),     \* not a slice of bytes
      Field("int32", "", 0, <<>>, FALSE) }         \* unexported: skipped

RecordTypes == SeqsUpTo(FieldPool, MaxFields)

\* the values a field of a record to encode takes
FieldValues(f) ==
    CASE f.kind = "uint8" -> {Uint(171, 1)}              \* 0xAB
      [] f.kind = "uint16" -> {Uint(258, 2)}             \* 0x0102
      [] f.kind = "uint32" -> {Uint(16909060, 4)}        \* 0x01020304
      [] f.kind = "uint64" -> {<<1, 2, 3, 4, 5, 6, 7, 8>>}  \* 0x0102030405060708
      [] f.kind = "array" -> {[i \in 1..f.len |-> 16 + i]}
      [] f.kind = "slice" /\ f.elem = "uint8" ->
            {[i \in 1..n |-> 32 + i] : n \in 0..MaxSliceLen}
      [] OTHER -> {<<>>}

\* the values a field of a destination record holds before decoding
DestValues(f) ==
    CASE f.kind \in UintKinds -> {Uint(238, parseUintOptions(f.kind).BitSize)}
      [] f.kind = "array" -> {[i \in 1..f.len |-> 238]}
      [] f.kind = "slice" /\ f.elem = "uint8" ->
            {[i \in 1..n |-> 238] : n \in 0..MaxSliceLen}
      [] OTHER -> {<<>>}

\* the records of type t to encode, and those to decode into
RECURSIVE SourceRecordsFrom(_, _, _)
SourceRecordsFrom(t, i, acc) ==
    IF i > Len(t) THEN acc
    ELSE SourceRecordsFrom(t, i + 1,
             {Append(q, x) : q \in acc, x \in FieldValues(t[i])})

RECURSIVE DestRecordsFrom(_, _, _)
DestRecordsFrom(t, i, acc) ==
    IF i > Len(t) THEN acc
    ELSE DestRecordsFrom(t, i + 1,
             {Append(q, x) : q \in acc, x \in DestValues(t[i])})

SourceRecords(t) == SourceRecordsFrom(t, 1, {<<>>})
DestRecords(t) == DestRecordsFrom(t, 1, {<<>>})

ArgShapes == {"struct", "ptr", "nilptr", "ptrToInt", "int"}
\* a check that lets a nil reference through
IsRecordArgOrNilPointer(s) == s \in {"struct", "ptr", "nilptr"}

\* MarshalToWriter / StructLen go on: s is a record or a non-nil pointer to one
IsRecordArg(s) == s \in {"struct", "ptr"}

FillData(n) == [i \in 1..n |-> i]

\* the data handed to Unmarshal for destination d: every length from empty
\* to one byte more than the record needs, and the last Marshal's output
DataChoices(t, d) ==
    IF Len(d) # Len(t) THEN {FillData(1)}
    ELSE {FillData(n) : n \in 0..(structLen(t, d).n + 1)}
            \cup (IF last.ok THEN {last.out} ELSE {})

(***************************************************************************)
(* The sink and the source.                                                *)
(***************************************************************************)
\* w.Write(p): bytes.Buffer takes all of p; any other io.Writer may take
\* fewer bytes, fail, or both
WriteResponses(mode, p) ==
    IF mode = "buffer" THEN {[n |-> Len(p), err |-> Nil]}
    ELSE {[n |-> k, err |-> e] : k \in 0..Len(p), e \in {Nil, ErrIO}}

\* r.Read(p) with len(p) = plen on a source holding buf.  bytes.Buffer: io.EOF
\* when empty (nil for an empty p), else as much of p as it can fill; any
\* other io.Reader may fill less, fail, or both
ReadResponses(mode, buf, plen) ==
    IF mode = "buffer"
    THEN IF buf = <<>>
         THEN {[n |-> 0, err |-> (IF plen = 0 THEN Nil ELSE EOF), data |-> <<>>]}
         ELSE {[n |-> Min(plen, Len(buf)), err |-> Nil,
                data |-> SubSeq(buf, 1, Min(plen, Len(buf)))]}
    ELSE {[n |-> k, err |-> e, data |-> SubSeq(buf, 1, k)] :
             k \in 0..Min(plen, Len(buf)), e \in {Nil, ErrIO}}

(***************************************************************************)
(* getMarshaler / getUnmarshaler run by one goroutine alone: Load, and on  *)
(* a miss newMarshaler and LoadOrStore.                                    *)
(***************************************************************************)
getMarshaler(m, t, ptr) ==
    LET c == MapGet(m, t) IN
    IF c.ok THEN [m |-> m, plan |-> c.val, err |-> Nil, built |-> FALSE]
    ELSE LET b == newMarshaler(t, ptr) IN
         IF b.err # Nil THEN [m |-> m, plan |-> NilPlan, err |-> b.err, built |-> TRUE]
         ELSE LET st == LoadOrStore(m, t, b.plan) IN
              [m |-> st.m, plan |-> st.actual, err |-> Nil, built |-> TRUE]

getUnmarshaler(m, t, ptr) ==
    LET c == MapGet(m, t) IN
    IF c.ok THEN [m |-> m, plan |-> c.val, err |-> Nil, built |-> FALSE]
    ELSE LET b == newUnmarshaler(t, ptr) IN
         IF b.err # Nil THEN [m |-> m, plan |-> NilPlan, err |-> b.err, built |-> TRUE]
         ELSE LET st == LoadOrStore(m, t, b.plan) IN
              [m |-> st.m, plan |-> st.actual, err |-> Nil, built |-> TRUE]

(***************************************************************************)
(* SpecCodec: actions.                                                     *)
(***************************************************************************)
InitCodec ==
    /\ CacheInit /\ TagIdle /\ CodecIdle /\ ProcIdle
    /\ typ \in RecordTypes
    /\ last = NoLast

\* MarshalToWriter(s, w), and Marshal(s) when the sink is Marshal's own
\* bytes.Buffer: the checks on s and getMarshaler, up to the field loop
MarshalCall(sh, v, m) ==
    /\ pc = "idle"
    /\ op' = "marshal" /\ shape' = sh /\ value' = v /\ value0' = v
    /\ wmode' = m /\ sink' = <<>> /\ ioCalls' = 0 /\ io' = NoIO
    /\ idx' = 1 /\ cnt' = 0
    /\ rmode' = "buffer" /\ src' = <<>> /\ src0' = <<>>
    /\ IF ~IsRecordArg(sh)
       THEN /\ res' = Ret(0, ErrInvalidType)
            /\ pc' = "done"
            /\ plan' = NilPlan
            /\ UNCHANGED cacheVars
       ELSE LET g == getMarshaler(marshalCache, typ, nextPtr) IN
            /\ marshalCache' = g.m
            /\ nextPtr' = IF g.built /\ g.err = Nil THEN nextPtr + 1 ELSE nextPtr
            /\ plan' = g.plan
            /\ res' = Ret(0, g.err)
            /\ pc' = IF g.err # Nil THEN "done" ELSE "marshal"
            /\ UNCHANGED unmarshalCache
    /\ UNCHANGED <<typ, last, tagVars, procVars>>

\* one iteration of marshaler.marshal: fieldMarshaler[i].marshalFunc(field, w)
MarshalField ==
    /\ pc = "marshal"
    /\ idx <= Len(plan.fieldIndex)
    /\ LET fn == plan.fieldFunc[idx]
           v == value[plan.fieldIndex[idx]]
           a == MarshalWriteArg(fn, v, shape = "ptr")
       IN  IF a.panic # ""
           THEN /\ res' = Panic(a.panic)
                /\ pc' = "done"
                /\ UNCHANGED <<sink, ioCalls, io, idx, cnt>>
           ELSE \E wr \in WriteResponses(wmode, a.b) :
                LET r == marshalFunc(fn, v, wr) IN
                /\ sink' = sink \o SubSeq(a.b, 1, wr.n)
                /\ ioCalls' = ioCalls + 1
                /\ io' = [want |-> Len(a.b), n |-> wr.n, err |-> wr.err]
                /\ IF r.err # Nil
                   THEN /\ res' = Ret(0, r.err)
                        /\ pc' = "done"
                        /\ UNCHANGED <<idx, cnt>>
                   ELSE /\ cnt' = cnt + r.n
                        /\ idx' = idx + 1
                        /\ UNCHANGED <<res, pc>>
    /\ UNCHANGED <<typ, op, shape, value, value0, plan, wmode, rmode, src, src0,
                   last, cacheVars, tagVars, procVars>>

\* the loop of marshaler.marshal is over: return n, nil; Marshal returns
\* bb.Bytes()
MarshalReturn ==
    /\ pc = "marshal"
    /\ idx > Len(plan.fieldIndex)
    /\ res' = Ret(cnt, Nil)
    /\ pc' = "done"
    /\ last' = IF wmode = "buffer" THEN [ok |-> TRUE, v |-> value, out |-> sink]
               ELSE last
    /\ UNCHANGED <<typ, op, shape, value, value0, plan, idx, cnt, wmode, sink,
                   rmode, src, src0, ioCalls, io, cacheVars, tagVars, procVars>>

\* UnmarshalFromReader(r, s), and Unmarshal(data, s) when the source is
\* bytes.NewBuffer(data): the checks on s and getUnmarshaler
UnmarshalCall(sh, d, data, m) ==
    /\ pc = "idle"
    /\ op' = "unmarshal" /\ shape' = sh /\ value' = d /\ value0' = d
    /\ rmode' = m /\ src' = data /\ src0' = data /\ ioCalls' = 0 /\ io' = NoIO
    /\ idx' = 1 /\ cnt' = 0
    /\ wmode' = "buffer" /\ sink' = <<>>
    /\ IF sh # "ptr"
       THEN /\ res' = Ret(0, ErrInvalidType)
            /\ pc' = "done"
            /\ plan' = NilPlan
            /\ UNCHANGED cacheVars
       ELSE LET g == getUnmarshaler(unmarshalCache, typ, nextPtr) IN
            /\ unmarshalCache' = g.m
            /\ nextPtr' = IF g.built /\ g.err = Nil THEN nextPtr + 1 ELSE nextPtr
            /\ plan' = g.plan
            /\ res' = Ret(0, g.err)
            /\ pc' = IF g.err # Nil THEN "done" ELSE "unmarshal"
            /\ UNCHANGED marshalCache
    /\ UNCHANGED <<typ, last, tagVars, procVars>>

\* one iteration of unmarshaler.unmarshal: fieldUnmarshaler[i].unmarshalFunc(field, r)
UnmarshalField ==
    /\ pc = "unmarshal"
    /\ idx <= Len(plan.fieldIndex)
    /\ LET fn == plan.fieldFunc[idx]
           fi == plan.fieldIndex[idx]
           v == value[fi]
       IN  IF fn.case = "uint" /\ UintPanic(fn.endian, fn.BitSize) # ""
           THEN /\ res' = Panic(UintPanic(fn.endian, fn.BitSize))
                /\ pc' = "done"
                /\ UNCHANGED <<src, ioCalls, io, idx, cnt, value>>
           ELSE \E rr \in ReadResponses(rmode, src, UnmarshalReadLen(fn, v)) :
                LET u == unmarshalFunc(fn, v, rr) IN
                /\ src' = SubSeq(src, rr.n + 1, Len(src))
                /\ ioCalls' = ioCalls + 1
                /\ io' = [want |-> UnmarshalReadLen(fn, v), n |-> rr.n, err |-> rr.err]
                /\ value' = [value EXCEPT ![fi] = u.val]
                /\ IF u.panic # ""
                   THEN /\ res' = Panic(u.panic)
                        /\ pc' = "done"
                        /\ UNCHANGED <<idx, cnt>>
                   ELSE IF u.err # Nil
                   THEN /\ res' = Ret(0, u.err)
                        /\ pc' = "done"
                        /\ UNCHANGED <<idx, cnt>>
                   ELSE /\ cnt' = cnt + u.n
                        /\ idx' = idx + 1
                        /\ UNCHANGED <<res, pc>>
    /\ UNCHANGED <<typ, op, shape, value0, plan, wmode, sink, rmode, src0,
                   last, cacheVars, tagVars, procVars>>

\* the loop of unmarshaler.unmarshal is over: return n, nil
UnmarshalReturn ==
    /\ pc = "unmarshal"
    /\ idx > Len(plan.fieldIndex)
    /\ res' = Ret(cnt, Nil)
    /\ pc' = "done"
    /\ UNCHANGED <<typ, op, shape, value, value0, plan, idx, cnt, wmode, sink,
                   rmode, src, src0, ioCalls, io, last, cacheVars, tagVars, procVars>>

\* StructLen(s)
StructLen(sh, v) ==
    IF ~IsRecordArg(sh) THEN Ret(0, ErrInvalidType)
    ELSE Ret(structLen(typ, v).n, structLen(typ, v).err)

StructLenCall(sh, v) ==
    /\ pc = "idle"
    /\ op' = "structlen" /\ shape' = sh /\ value' = v /\ value0' = v
    /\ res' = StructLen(sh, v)
    /\ pc' = "done"
    /\ plan' = NilPlan /\ idx' = 0 /\ cnt' = 0 /\ ioCalls' = 0 /\ io' = NoIO
    /\ wmode' = "buffer" /\ sink' = <<>>
    /\ rmode' = "buffer" /\ src' = <<>> /\ src0' = <<>>
    /\ UNCHANGED <<typ, last, cacheVars, tagVars, procVars>>

\* the caller has its result and goes on to its next call
CallerContinues ==
    /\ pc = "done"
    /\ pc' = "idle" /\ op' = "none" /\ shape' = "ptr"
    /\ value' = <<>> /\ value0' = <<>> /\ plan' = NilPlan
    /\ idx' = 0 /\ cnt' = 0 /\ ioCalls' = 0 /\ io' = NoIO /\ res' = Ret(0, Nil)
    /\ wmode' = "buffer" /\ sink' = <<>>
    /\ rmode' = "buffer" /\ src' = <<>> /\ src0' = <<>>
    /\ UNCHANGED <<typ, last, cacheVars, tagVars, procVars>>

SourceArgs(sh) == IF IsRecordArg(sh) THEN SourceRecords(typ) ELSE {<<>>}
DestArgs(sh) == IF IsRecordArg(sh) THEN DestRecords(typ) ELSE {<<>>}
IOModes == {"buffer", "writer"}

NextCodec ==
    \/ \E sh \in ArgShapes : \E v \in SourceArgs(sh) : \E m \in {"buffer", "writer"} :
          MarshalCall(sh, v, m)
    \/ MarshalField
    \/ MarshalReturn
    \/ \E sh \in ArgShapes : \E d \in DestArgs(sh) : \E m \in {"buffer", "reader"} :
          \E data \in DataChoices(typ, d) : UnmarshalCall(sh, d, data, m)
    \/ UnmarshalField
    \/ UnmarshalReturn
    \/ \E sh \in ArgShapes : \E v \in (SourceArgs(sh) \cup DestArgs(sh)) :
          StructLenCall(sh, v)
    \/ CallerContinues

SpecCodec == InitCodec /\ [][NextCodec]_vars

(***************************************************************************)
(* marshaler.marshal and unmarshaler.unmarshal run to their end against a  *)
(* bytes.Buffer, as Marshal and Unmarshal run them.                        *)
(***************************************************************************)
RECURSIVE marshalLoop(_, _, _, _, _, _)
marshalLoop(mc, val, addressable, i, n, buf) ==
    IF i > Len(mc.fieldIndex) THEN [n |-> n, err |-> Nil, panic |-> "", out |-> buf]
    ELSE LET fn == mc.fieldFunc[i]
             v == val[mc.fieldIndex[i]]
             a == MarshalWriteArg(fn, v, addressable)
         IN  IF a.panic # "" THEN [n |-> 0, err |-> Nil, panic |-> a.panic, out |-> <<>>]
             ELSE LET wr == CHOOSE x \in WriteResponses("buffer", a.b) : TRUE
                      r == marshalFunc(fn, v, wr)
                  IN  IF r.err # Nil
                      THEN [n |-> 0, err |-> r.err, panic |-> "", out |-> <<>>]
                      ELSE marshalLoop(mc, val, addressable, i + 1, n + r.n,
                                       buf \o SubSeq(a.b, 1, wr.n))

RECURSIVE unmarshalLoop(_, _, _, _, _)
unmarshalLoop(uc, val, i, n, buf) ==
    IF i > Len(uc.fieldIndex) THEN [n |-> n, err |-> Nil, panic |-> "", out |-> val]
    ELSE LET fn == uc.fieldFunc[i]
             fi == uc.fieldIndex[i]
             rr == CHOOSE x \in ReadResponses("buffer", buf,
                                              UnmarshalReadLen(fn, val[fi])) : TRUE
             u == unmarshalFunc(fn, val[fi], rr)
             now == [val EXCEPT ![fi] = u.val]
         IN  IF u.panic # "" THEN [n |-> 0, err |-> Nil, panic |-> u.panic, out |-> now]
             ELSE IF u.err # Nil THEN [n |-> 0, err |-> u.err, panic |-> "", out |-> now]
             ELSE unmarshalLoop(uc, now, i + 1, n + u.n, SubSeq(buf, rr.n + 1, Len(buf)))

(***************************************************************************)
(* Spec: goroutines calling Marshal and Unmarshal at once.  Each call      *)
(* goes through getMarshaler / getUnmarshaler step by step: SafeMap.Load   *)
(* under the read lock, on a miss the build with no lock held, then        *)
(* SafeMap.LoadOrStore under the write lock, then the plan is run.         *)
(***************************************************************************)
\* the record types the goroutines use: two valid ones, one with a field of
\* an unsupported kind and one with a uint16 that names no byte order
TypeA == << Field("uint8", "", 0, <<>>, TRUE), Field("uint16", "", 0, TagBE, TRUE) >>
TypeB == << Field("array", "uint8", MaxSliceLen, <<>>, TRUE),
            Field("uint32", "", 0, TagLE, TRUE) >>
TypeBad == << Field("uint8", "", 0, <<>>, TRUE), Field("int32", "", 0, <<>>, TRUE) >>
TypeNoTag == << Field("uint16", "", 0, <<>>, TRUE) >>
ProcTypes == {TypeA, TypeB, TypeBad, TypeNoTag}
Ops == {"marshal", "unmarshal"}

\* goroutine p's own record of type t
InstanceValue(f, p, i) ==
    CASE f.kind \in UintKinds -> Uint(16 * p + i, parseUintOptions(f.kind).BitSize)
      [] f.kind = "array" -> [k \in 1..f.len |-> 16 * p + k]
      [] OTHER -> <<>>
Instance(t, p) == [i \in 1..Len(t) |-> InstanceValue(t[i], p, i)]

\* the address of the plan goroutine p allocates in its k-th call
PlanPtr(p, k) == 100 * p + k

Cache(c) == IF c = "marshal" THEN marshalCache ELSE unmarshalCache

\* a goroutine enters Marshal(&v) or Unmarshal(data, &v) with its own record
Call(p, c, t) ==
    /\ gpc[p] \in {"idle", "done"}
    /\ gcalls[p] < MaxCalls
    /\ gcalls' = [gcalls EXCEPT ![p] = @ + 1]
    /\ gcall' = [gcall EXCEPT ![p] = [op |-> c, typ |-> t, built |-> FALSE]]
    /\ gcand' = [gcand EXCEPT ![p] = NilPlan]
    /\ gret' = [gret EXCEPT ![p] = NilPlan]
    /\ gres' = [gres EXCEPT ![p] = NoOut]
    /\ gpc' = [gpc EXCEPT ![p] = "load"]
    /\ UNCHANGED <<mu, published, cacheVars, tagVars, codecVars>>

\* a Load that reads the map without taking the read lock
LoadUnlocked(p) ==
    /\ gpc[p] = "load"
    /\ gpc' = [gpc EXCEPT ![p] = "loading"]
    /\ UNCHANGED <<gcall, gcand, gret, gres, gcalls, mu, published, cacheVars, tagVars,
                   codecVars>>

\* SafeMap.Load: sm.mu.RLock(); it waits while a writer holds or awaits the lock
LoadRLock(p) ==
    /\ gpc[p] = "load"
    /\ LET c == gcall[p].op IN
       /\ mu[c].writer = 0
       /\ mu' = [mu EXCEPT ![c].readers = @ \cup {p}]
    /\ gpc' = [gpc EXCEPT ![p] = "loading"]
    /\ UNCHANGED <<gcall, gcand, gret, gres, gcalls, published, cacheVars, tagVars,
                   codecVars>>

\* a Load that returns without RUnlock
LoadReturnKeepsLock(p) ==
    /\ gpc[p] = "loading"
    /\ LET c == gcall[p].op
           l == MapGet(Cache(c), gcall[p].typ)
       IN  /\ gret' = [gret EXCEPT ![p] = l.val]
           /\ gpc' = [gpc EXCEPT ![p] = IF l.ok THEN "run" ELSE "build"]
    /\ UNCHANGED <<gcall, gcand, gres, gcalls, mu, published, cacheVars, tagVars,
                   codecVars>>

\* SafeMap.Load: val, ok := sm.m[key]; RUnlock; back in getMarshaler, `if !ok`
LoadReturn(p) ==
    /\ gpc[p] = "loading"
    /\ LET c == gcall[p].op
           l == MapGet(Cache(c), gcall[p].typ)
       IN  /\ mu' = [mu EXCEPT ![c].readers = @ \ {p}]
           /\ gret' = [gret EXCEPT ![p] = l.val]
           /\ gpc' = [gpc EXCEPT ![p] = IF l.ok THEN "run" ELSE "build"]
    /\ UNCHANGED <<gcall, gcand, gres, gcalls, published, cacheVars, tagVars, codecVars>>

\* getMarshaler / getUnmarshaler on a miss: m, err := newMarshaler(typ), with
\* no lock held; on an error the call returns it
Build(p) ==
    /\ gpc[p] = "build"
    /\ LET c == gcall[p].op
           b == IF c = "marshal"
                THEN newMarshaler(gcall[p].typ, PlanPtr(p, gcalls[p]))
                ELSE newUnmarshaler(gcall[p].typ, PlanPtr(p, gcalls[p]))
       IN  /\ gcall' = [gcall EXCEPT ![p].built = TRUE]
           /\ IF b.err # Nil
              THEN /\ gres' = [gres EXCEPT ![p] = [NoOut EXCEPT !.err = b.err]]
                   /\ gpc' = [gpc EXCEPT ![p] = "done"]
                   /\ UNCHANGED gcand
              ELSE /\ gcand' = [gcand EXCEPT ![p] = b.plan]
                   /\ gpc' = [gpc EXCEPT ![p] = "store"]
                   /\ UNCHANGED gres
    /\ UNCHANGED <<gret, gcalls, mu, published, cacheVars, tagVars, codecVars>>

\* SafeMap.LoadOrStore: sm.mu.Lock() takes the writer's place, which keeps
\* new readers out
StoreLock(p) ==
    /\ gpc[p] = "store"
    /\ LET c == gcall[p].op IN
       /\ mu[c].writer = 0
       /\ mu' = [mu EXCEPT ![c].writer = p]
    /\ gpc' = [gpc EXCEPT ![p] = "storeWait"]
    /\ UNCHANGED <<gcall, gcand, gret, gres, gcalls, published, cacheVars, tagVars,
                   codecVars>>

\* sm.mu.Lock() returns once the readers inside have left
StoreLocked(p) ==
    /\ gpc[p] = "storeWait"
    /\ LET c == gcall[p].op IN
       /\ mu[c].readers = {}
       /\ mu' = [mu EXCEPT ![c].held = TRUE]
    /\ gpc' = [gpc EXCEPT ![p] = "storing"]
    /\ UNCHANGED <<gcall, gcand, gret, gres, gcalls, published, cacheVars, tagVars,
                   codecVars>>

\* SafeMap.LoadOrStore under the lock, Unlock, and `c, _ =` in getMarshaler
StoreReturn(p) ==
    /\ gpc[p] = "storing"
    /\ LET c == gcall[p].op
           t == gcall[p].typ
           st == LoadOrStore(Cache(c), t, gcand[p])
       IN  /\ IF c = "marshal"
              THEN marshalCache' = st.m /\ UNCHANGED unmarshalCache
              ELSE unmarshalCache' = st.m /\ UNCHANGED marshalCache
           /\ published' = IF st.m # Cache(c)
                           THEN published \cup {[op |-> c, typ |-> t, ptr |-> st.m[t].ptr]}
                           ELSE published
           /\ gret' = [gret EXCEPT ![p] = st.actual]
           /\ mu' = [mu EXCEPT ![c] = Unlocked]
    /\ gpc' = [gpc EXCEPT ![p] = "run"]
    /\ UNCHANGED <<gcall, gcand, gres, gcalls, nextPtr, tagVars, codecVars>>

\* getMarshaler returned c: m.marshal(value, w) / u.unmarshal(value, r) on
\* the goroutine's own record and its own bytes.Buffer
Run(p) ==
    /\ gpc[p] = "run"
    /\ LET t == gcall[p].typ
           v == Instance(t, p)
       IN  gres' = [gres EXCEPT ![p] =
                IF gcall[p].op = "marshal"
                THEN marshalLoop(gret[p], v, TRUE, 1, 0, <<>>)
                ELSE unmarshalLoop(gret[p], v, 1, 0, FillData(structLen(t, v).n))]
    /\ gpc' = [gpc EXCEPT ![p] = "done"]
    /\ UNCHANGED <<gcall, gcand, gret, gcalls, mu, published, cacheVars, tagVars,
                   codecVars>>

Init ==
    /\ CacheInit /\ TagIdle /\ CodecIdle /\ ProcIdle
    /\ typ = <<>>
    /\ last = NoLast

Next ==
    \E p \in Procs :
        \/ \E c \in Ops : \E t \in ProcTypes : Call(p, c, t)
        \/ LoadRLock(p)
        \/ LoadReturn(p)
        \/ Build(p)
        \/ StoreLock(p)
        \/ StoreLocked(p)
        \/ StoreReturn(p)
        \/ Run(p)

Spec == Init /\ [][Next]_vars

\* The goroutines under a fair scheduler: a goroutine that can take its next
\* step does take it.  RLock and Lock are steps a goroutine can take whenever
\* the lock is free for it; a caller is not obliged to call.  The calls are
\* on one valid type and on one whose build fails.
LiveTypes == {TypeA, TypeBad}

NextLive ==
    \E p \in Procs :
        \/ \E c \in Ops : \E t \in LiveTypes : Call(p, c, t)
        \/ LoadRLock(p)
        \/ LoadReturn(p)
        \/ Build(p)
        \/ StoreLock(p)
        \/ StoreLocked(p)
        \/ StoreReturn(p)
        \/ Run(p)

Fairness ==
    \A p \in Procs :
        /\ WF_vars(LoadRLock(p))
        /\ WF_vars(LoadReturn(p))
        /\ WF_vars(Build(p))
        /\ WF_vars(StoreLock(p))
        /\ WF_vars(StoreLocked(p))
        /\ WF_vars(StoreReturn(p))
        /\ WF_vars(Run(p))

FairSpec == Init /\ [][NextLive]_vars /\ Fairness

(***************************************************************************)
(* Vocabulary of the properties.                                           *)
(***************************************************************************)
Exported(t) == {i \in 1..Len(t) : t[i].exported}

\* a field the codec supports: an unsigned integer, or bytes
SupportedKind(f) ==
    \/ f.kind \in UintKinds
    \/ f.kind \in {"array", "slice"} /\ f.elem = "uint8"

\* the tokens of a tag that name a byte order, and those that name nothing
EndianTokens(tag) ==
    {i \in 1..Len(Split(tag)) : Split(tag)[i] \in {TagBE, TagLE}}
UnknownTokens(tag) ==
    {i \in 1..Len(Split(tag)) : Split(tag)[i] \notin {<<>>, TagBE, TagLE}}

\* (a) an unknown token, (b) more than one byte order, (c) none where needed
TagMalformed(tag, kind) ==
    \/ UnknownTokens(tag) # {}
    \/ Cardinality(EndianTokens(tag)) > 1
    \/ kind \in {"uint16", "uint32", "uint64"} /\ EndianTokens(tag) = {}

\* a valid record type: every exported field is of a supported kind and
\* carries a well-formed tag, with a byte order where one is required
ValidType(t) ==
    \A i \in Exported(t) : SupportedKind(t[i]) /\ ~TagMalformed(t[i].tag, t[i].kind)

HasUnsupportedKind(t) == \E i \in Exported(t) : ~SupportedKind(t[i])

\* the width of a field on the wire
WireLen(f, v) ==
    CASE f.kind = "uint8" -> 1
      [] f.kind = "uint16" -> 2
      [] f.kind = "uint32" -> 4
      [] f.kind = "uint64" -> 8
      [] OTHER -> Len(v)

RECURSIVE SumWireLen(_, _, _)
SumWireLen(t, v, S) ==
    IF S = {} THEN 0
    ELSE LET i == CHOOSE x \in S : TRUE IN
         WireLen(t[i], v[i]) + SumWireLen(t, v, S \ {i})

\* the destination d is sized like the record v: same length of every []byte
Presized(t, d, v) ==
    \A i \in Exported(t) : t[i].kind = "slice" => Len(d[i]) = Len(v[i])

ExportedEqual(t, d, v) == \A i \in Exported(t) : d[i] = v[i]

MarshalDone == op = "marshal" /\ pc = "done"
UnmarshalDone == op = "unmarshal" /\ pc = "done"
Succeeded == res.panic = "" /\ res.err = Nil

(***************************************************************************)
(* C7.  newFieldTag returns an error matching ErrTagFormat exactly when    *)
(* the tag has (a) a non-empty token other than be / le, (b) more than one *)
(* be / le token, or (c) no be / le token on a uint16 / uint32 / uint64    *)
(* field; otherwise it succeeds, whatever the kind, and resolves the byte  *)
(* order the tag names (none for an empty tag).                            *)
(***************************************************************************)
C7_TagFormatExactly ==
    tagOut.done =>
        /\ Is(tagOut.err, ErrTagFormat) <=> TagMalformed(tagIn.tag, tagIn.kind)
        /\ ~TagMalformed(tagIn.tag, tagIn.kind) =>
              /\ tagOut.err = Nil
              /\ (tagOut.endian = "BigEndian") <=>
                     (\E i \in EndianTokens(tagIn.tag) : Split(tagIn.tag)[i] = TagBE)
              /\ (tagOut.endian = "nil") <=> (EndianTokens(tagIn.tag) = {})

\* a uint8 field tagged "be,be" is rejected for the duplicate
C7_Witness ==
    /\ tagOut.done
    /\ tagIn = [tag |-> <<"b", "e", ",", "b", "e">>, kind |-> "uint8"]
    /\ Is(tagOut.err, ErrTagFormat)

(***************************************************************************)
(* C1.  Round trip: for every record v of a valid type, Marshal(v)         *)
(* returns its bytes without error, and Unmarshal of those bytes into a    *)
(* destination whose []byte fields are sized like v's returns no error     *)
(* and leaves every exported field equal to v's.                           *)
(***************************************************************************)
C1_RoundTrip ==
    /\ (MarshalDone /\ wmode = "buffer" /\ IsRecordArg(shape) /\ ValidType(typ))
          => Succeeded
    /\ (UnmarshalDone /\ rmode = "buffer" /\ shape = "ptr" /\ ValidType(typ)
          /\ last.ok /\ src0 = last.out /\ Presized(typ, value0, last.v))
          => Succeeded /\ ExportedEqual(typ, value, last.v)

(***************************************************************************)
(* C2.  Length consistency: whenever Marshal(v) succeeded, StructLen(v)    *)
(* succeeds and returns the number of bytes Marshal(v) returned, which is  *)
(* the sum of 1/2/4/8 per exported integer field and of the current length *)
(* of every exported byte array and byte slice.                            *)
(***************************************************************************)
C2_StructLenIsMarshalLen ==
    (op = "structlen" /\ pc = "done" /\ IsRecordArg(shape) /\ last.ok /\ value = last.v)
        => /\ Succeeded
           /\ res.n = Len(last.out)
           /\ res.n = SumWireLen(typ, value, Exported(typ))

\* StructLen of a record with a uint64 and a non-empty []byte, after its Marshal
C2_Witness ==
    /\ op = "structlen" /\ pc = "done" /\ IsRecordArg(shape)
    /\ last.ok /\ value = last.v
    /\ Len(typ) = 2 /\ typ[1].kind = "uint64" /\ typ[2].kind = "slice"
    /\ Len(value[2]) = MaxSliceLen
    /\ res.n = 8 + MaxSliceLen

(***************************************************************************)
(* C6.  As claimed: if an exported field has an unsupported kind,          *)
(* MarshalToWriter returns an error matching ErrInvalidType and writes     *)
(* nothing, UnmarshalFromReader returns one and neither reads nor changes  *)
(* a field, wherever the offending field stands.                           *)
(***************************************************************************)
RejectedBeforeIO ==
    /\ res.panic = ""
    /\ ioCalls = 0 /\ sink = <<>> /\ src = src0 /\ value = value0
    /\ marshalCache = EmptyMap /\ unmarshalCache = EmptyMap

C6_UnsupportedKindIsInvalidType ==
    (HasUnsupportedKind(typ) /\ op \in {"marshal", "unmarshal"})
        => /\ pc = "done"
           /\ RejectedBeforeIO
           /\ Is(res.err, ErrInvalidType)

\* the first exported field newFieldMarshaler / newFieldUnmarshaler rejects
Rejected(f) == TagMalformed(f.tag, f.kind) \/ ~SupportedKind(f)
FirstRejected(t) ==
    CHOOSE i \in Exported(t) :
        Rejected(t[i]) /\ \A j \in Exported(t) : j < i => ~Rejected(t[j])

(***************************************************************************)
(* C6, amended.  If an exported field has an unsupported kind, the plan is *)
(* never built: MarshalToWriter writes nothing, UnmarshalFromReader        *)
(* neither reads nor changes a field, nothing is cached, wherever the      *)
(* offending field stands.  The error matches ErrInvalidType, unless the   *)
(* first field that is rejected has a malformed tag (the tag is resolved   *)
(* before the kind is looked at): then it matches ErrTagFormat.            *)
(***************************************************************************)
C6_UnsupportedKindRejectedAtBuild ==
    (HasUnsupportedKind(typ) /\ op \in {"marshal", "unmarshal"})
        => /\ pc = "done"
           /\ RejectedBeforeIO
           /\ LET f == typ[FirstRejected(typ)] IN
              IF (op = "marshal" => IsRecordArg(shape))
                   /\ (op = "unmarshal" => shape = "ptr")
                   /\ TagMalformed(f.tag, f.kind)
              THEN Is(res.err, ErrTagFormat)
              ELSE Is(res.err, ErrInvalidType)

\* a record whose second field is an int32, handed to MarshalToWriter
C6_Witness ==
    /\ MarshalDone /\ wmode = "writer" /\ shape = "ptr"
    /\ Len(typ) = 2 /\ typ[1].kind = "uint8" /\ typ[2].kind = "int32" /\ typ[2].exported
    /\ Is(res.err, ErrInvalidType)

(***************************************************************************)
(* C8.  Short transfers: a Read that returns fewer bytes than the field    *)
(* needs, with no error, ends UnmarshalFromReader at once with an error    *)
(* matching ErrReadData; a Write that takes fewer bytes than the field     *)
(* has, with no error, ends MarshalToWriter with one matching              *)
(* ErrWriteDataLen.  This for every field kind.                            *)
(***************************************************************************)
ShortTransfer == ioCalls > 0 /\ io.err = Nil /\ io.n < io.want

C8_ShortTransferDetected ==
    /\ (op = "unmarshal" /\ ShortTransfer)
          => pc = "done" /\ res.panic = "" /\ res.n = 0 /\ Is(res.err, ErrReadData)
    /\ (op = "marshal" /\ ShortTransfer)
          => pc = "done" /\ res.panic = "" /\ res.n = 0 /\ Is(res.err, ErrWriteDataLen)

\* a source that yields 3 of the 4 bytes of a uint32
C8_Witness ==
    /\ UnmarshalDone /\ rmode = "reader"
    /\ idx \in DOMAIN plan.fieldFunc
    /\ plan.fieldFunc[idx].BitSize = 4
    /\ io = [want |-> 4, n |-> 3, err |-> Nil]
    /\ Is(res.err, ErrReadData)

(***************************************************************************)
(* C9.  Unmarshal(data, &d) with data shorter than the record, of any      *)
(* length from 0 to StructLen(d) - 1, returns an error matching            *)
(* ErrReadData (stated for valid types without a zero-length array).       *)
(***************************************************************************)
NoEmptyArray(t) == \A i \in Exported(t) : t[i].kind = "array" => t[i].len > 0

C9_ShortDataIsErrReadData ==
    (UnmarshalDone /\ rmode = "buffer" /\ shape = "ptr"
        /\ ValidType(typ) /\ NoEmptyArray(typ)
        /\ Len(src0) < structLen(typ, value0).n)
        => Is(res.err, ErrReadData)

(***************************************************************************)
(* C10.  As claimed: an error returned by the sink's Write or the          *)
(* source's Read is returned as it is, the same error value, for every     *)
(* field kind, and matches none of the four errors of the package.         *)
(***************************************************************************)
IOFailed == ioCalls > 0 /\ io.err # Nil

C10_IOErrorUnchanged ==
    (op \in {"marshal", "unmarshal"} /\ IOFailed)
        => /\ pc = "done" /\ res.panic = ""
           /\ res.err = io.err
           /\ \A e \in Taxonomy : ~Is(res.err, e)

(***************************************************************************)
(* C10, amended.  An error returned by the sink's Write or the source's    *)
(* Read ends the call with an error that matches it (errors.Is) and none   *)
(* of the four errors of the package: the same error value for a byte      *)
(* array or byte slice field, the error wrapped by fmt.Errorf for an       *)
(* integer field.                                                          *)
(***************************************************************************)
C10_IOErrorPropagates ==
    (op \in {"marshal", "unmarshal"} /\ IOFailed)
        => /\ pc = "done" /\ res.panic = "" /\ res.n = 0
           /\ Is(res.err, io.err)
           /\ \A e \in Taxonomy : ~Is(res.err, e)
           /\ res.err = IF plan.fieldFunc[idx].case = "uint"
                        THEN Errorf(io.err) ELSE io.err

\* the sink fails on the second field, a uint32, of MarshalToWriter
C10_Witness ==
    /\ MarshalDone /\ wmode = "writer" /\ idx = 2
    /\ idx \in DOMAIN plan.fieldFunc
    /\ plan.fieldFunc[idx].BitSize = 4
    /\ io.err = ErrIO
    /\ res.err = Errorf(ErrIO)

(***************************************************************************)
(* Concurrent calls (Spec).                                                *)
(***************************************************************************)
Returned(p) == gpc[p] \in {"run", "done"} /\ gret[p] # NilPlan
Finished(p) == gpc[p] = "done"
SameCall(p, q) == gcall[p].op = gcall[q].op /\ gcall[p].typ = gcall[q].typ
\* p and q both built a plan for the same type and both have their answer
Raced(p, q) ==
    /\ p # q /\ SameCall(p, q)
    /\ gcand[p] # NilPlan /\ gcand[q] # NilPlan
    /\ Returned(p) /\ Returned(q)

\* C3: first publish wins.  However getMarshaler / getUnmarshaler calls
\* interleave, a type gets one plan written into the cache and no second one
\* ever, and every call that returns a plan returns the one the cache holds
\* for its type, the callers whose own candidate lost the race included.
C3_FirstPublishWins ==
    /\ \A x \in published : \A y \in published :
           (x.op = y.op /\ x.typ = y.typ) => x.ptr = y.ptr
    /\ \A x \in published :
           /\ x.typ \in DOMAIN Cache(x.op)
           /\ Cache(x.op)[x.typ].ptr = x.ptr
    /\ \A p \in Procs :
           Returned(p) =>
               /\ gcall[p].typ \in DOMAIN Cache(gcall[p].op)
               /\ gret[p] = Cache(gcall[p].op)[gcall[p].typ]

\* two callers built candidates for the same type; one returned the other's
C3_Witness ==
    \E p \in Procs : \E q \in Procs :
        /\ Raced(p, q)
        /\ gcand[p].ptr # gcand[q].ptr
        /\ gret[p] = gcand[q] /\ gret[q] = gcand[q]
        /\ gret[p].ptr # gcand[p].ptr

BuildError(e) == Is(e, ErrTagFormat) \/ Is(e, ErrInvalidType)

\* C4: failures are not cached.  A cache never holds an entry for a type
\* whose construction fails, and every entry is the whole plan of its type;
\* a finished call for such a type ran the construction itself and returned
\* its error with a count of 0, whatever was called before it; a finished
\* call for a valid type succeeded.
C4_FailuresNotCached ==
    /\ \A c \in Ops : \A t \in DOMAIN Cache(c) :
           /\ ValidType(t)
           /\ Len(Cache(c)[t].fieldIndex) = Cardinality(Exported(t))
           /\ Len(Cache(c)[t].fieldFunc) = Cardinality(Exported(t))
    /\ \A p \in Procs :
           (Finished(p) /\ ~ValidType(gcall[p].typ)) =>
               /\ gcall[p].built
               /\ BuildError(gres[p].err)
               /\ gres[p].n = 0 /\ gres[p].panic = ""
               /\ gret[p] = NilPlan
    /\ \A p \in Procs :
           (Finished(p) /\ ValidType(gcall[p].typ)) =>
               gres[p].err = Nil /\ gres[p].panic = ""

\* a goroutine's later call for a failing type has run the construction and
\* failed, another goroutine's call for that type has failed too, and the
\* same cache holds the plan of a valid type
C4_Witness ==
    \E p \in Procs :
        /\ Finished(p) /\ gcalls[p] > 1
        /\ ~ValidType(gcall[p].typ)
        /\ gcall[p].built /\ BuildError(gres[p].err)
        /\ \E q \in Procs \ {p} :
               /\ Finished(q) /\ SameCall(p, q)
               /\ gcall[q].built /\ BuildError(gres[q].err)
        /\ DOMAIN Cache(gcall[p].op) # {}

\* Marshal(&v) run alone, from an empty cache
SequentialMarshal(t, v) ==
    LET g == getMarshaler(EmptyMap, t, 0) IN
    IF g.err # Nil THEN [NoOut EXCEPT !.err = g.err]
    ELSE marshalLoop(g.plan, v, TRUE, 1, 0, <<>>)

FieldImage(f, v) ==
    IF f.kind \in UintKinds /\ f.tag = TagLE
    THEN [k \in 1..Len(v) |-> v[Len(v) + 1 - k]]
    ELSE v

RECURSIVE WireImage(_, _, _)
WireImage(t, v, i) ==
    IF i > Len(t) THEN <<>>
    ELSE (IF t[i].exported THEN FieldImage(t[i], v[i]) ELSE <<>>)
             \o WireImage(t, v, i + 1)

C11_WireFormat ==
    (MarshalDone /\ Succeeded)
        => /\ sink = WireImage(typ, value, 1)
           /\ res.n = Len(sink)

\* {A uint8 = 0xAB, B uint16 `le` = 0x0102} encodes to AB 02 01
C11_Witness ==
    /\ MarshalDone /\ Succeeded /\ wmode = "buffer"
    /\ Len(typ) = 2 /\ typ[1].kind = "uint8"
    /\ typ[2].kind = "uint16" /\ typ[2].tag = TagLE
    /\ value = << Uint(171, 1), Uint(258, 2) >>
    /\ sink = <<171, 2, 1>>

(***************************************************************************)
(* C12.  Marshal of a record passed by value: for every record of a valid  *)
(* type (zero-length arrays left aside), Marshal(v) returns no error and   *)
(* the bytes Marshal(&v) returns.                                          *)
(***************************************************************************)
C12_ByValueSameAsByReference ==
    (MarshalDone /\ shape = "struct" /\ wmode = "buffer"
        /\ ValidType(typ) /\ NoEmptyArray(typ))
        => /\ Succeeded
           /\ sink = marshalLoop(plan, value, TRUE, 1, 0, <<>>).out

(***************************************************************************)
(* C13.  Argument validation.  Unmarshal / UnmarshalFromReader called with *)
(* anything but a non-nil pointer to a record (a record by value, a nil    *)
(* pointer, a pointer to a non-record, a non-record), and Marshal /        *)
(* MarshalToWriter / StructLen called with anything but a record or a      *)
(* non-nil pointer to one, return ErrInvalidType with a count of 0; the    *)
(* source is not read, the sink not written, and both plan caches stay as  *)
(* they were before the call.                                              *)
(***************************************************************************)
BadArgument(o, sh) ==
    \/ o = "unmarshal" /\ sh # "ptr"
    \/ o \in {"marshal", "structlen"} /\ sh \notin {"struct", "ptr"}

C13_ArgumentValidation ==
    [][(pc = "idle" /\ pc' # "idle" /\ BadArgument(op', shape'))
          => /\ pc' = "done"
             /\ res' = Ret(0, ErrInvalidType)
             /\ ioCalls' = 0 /\ src' = src0' /\ sink' = <<>>
             /\ marshalCache' = marshalCache
             /\ unmarshalCache' = unmarshalCache
             /\ nextPtr' = nextPtr]_vars

\* Unmarshal into a record passed by value is turned down with the data
\* untouched, after an earlier call has filled a cache
C13_Witness ==
    /\ UnmarshalDone /\ shape = "struct"
    /\ res = Ret(0, ErrInvalidType)
    /\ ioCalls = 0 /\ src0 # <<>> /\ src = src0
    /\ typ \in DOMAIN marshalCache

(***************************************************************************)
(* C14.  Unmarshal fails fast and rolls nothing back: when the decoding    *)
(* of a field returns an error, the call returns that error with a count   *)
(* of 0 at once, the exported fields before it hold what was decoded from  *)
(* the stream, that field and every later one hold what they held before   *)
(* the call, and no Read was made for a later field.                       *)
(***************************************************************************)
\* where field i starts in the stream, and the value its bytes decode to
StreamOffset(i) == SumWireLen(typ, value0, {j \in Exported(typ) : j < i})
DecodedFromStream(i) ==
    FieldImage(typ[i], SubSeq(src0, StreamOffset(i) + 1,
                              StreamOffset(i) + WireLen(typ[i], value0[i])))

\* the field loop of unmarshaler.unmarshal ended with an error at plan entry idx
FieldFailed ==
    /\ UnmarshalDone /\ plan # NilPlan
    /\ res.panic = "" /\ res.err # Nil

C14_FailFastNoRollback ==
    FieldFailed =>
        /\ idx \in DOMAIN plan.fieldIndex
        /\ res.n = 0
        /\ ioCalls = idx
        /\ LET k == plan.fieldIndex[idx] IN
           /\ \A i \in Exported(typ) : i < k => value[i] = DecodedFromStream(i)
           /\ \A i \in 1..Len(typ) : (i >= k \/ ~typ[i].exported) => value[i] = value0[i]
           /\ Len(src0) - Len(src) = StreamOffset(k) + io.n
           /\ src = SubSeq(src0, StreamOffset(k) + io.n + 1, Len(src0))

\* the second field failed after the first was overwritten from the stream
C14_Witness ==
    /\ FieldFailed /\ idx = 2
    /\ value[1] # value0[1] /\ value[1] = DecodedFromStream(1)
    /\ value[2] = value0[2]
    /\ Is(res.err, ErrReadData)

(***************************************************************************)
(* C15.  Byte accounting of MarshalToWriter.  When it returns no error,    *)
(* its count is the number of bytes the sink took over all fields, which   *)
(* is StructLen of the record.  When the write of a field fails, the sink  *)
(* holds the whole encodings of the fields before it and the part of that  *)
(* field it accepted, no later field was written, and the call returns a   *)
(* count of 0 with that field's error.                                     *)
(***************************************************************************)
\* the field loop of marshaler.marshal was entered and the call returned
MarshalLoopReturned == MarshalDone /\ plan # NilPlan /\ res.panic = ""

ImageBefore(k) ==
    SubSeq(WireImage(typ, value, 1), 1,
           SumWireLen(typ, value, {j \in Exported(typ) : j < k}))

C15_ByteAccounting ==
    MarshalLoopReturned =>
        IF res.err = Nil
        THEN /\ res.n = Len(sink)
             /\ structLen(typ, value) = [n |-> res.n, err |-> Nil]
             /\ ioCalls = Len(plan.fieldIndex)
        ELSE /\ res.n = 0
             /\ idx \in DOMAIN plan.fieldIndex
             /\ ioCalls = idx
             /\ LET k == plan.fieldIndex[idx] IN
                /\ sink = ImageBefore(k)
                            \o SubSeq(FieldImage(typ[k], value[k]), 1, io.n)
                /\ res.err = marshalFunc(plan.fieldFunc[idx], value[k],
                                         [n |-> io.n, err |-> io.err]).err

\* the sink took the first field and one byte of the second, then the call failed
C15_Witness ==
    /\ MarshalLoopReturned /\ wmode = "writer"
    /\ res.err # Nil /\ res.n = 0
    /\ idx = 2 /\ io.n = 1 /\ io.want > 1
    /\ Len(sink) = WireLen(typ[1], value[1]) + 1

(***************************************************************************)
(* C16.  The length to decode comes from the destination.  For a byte      *)
(* array or byte slice field UnmarshalFromReader asks Read for exactly as  *)
(* many bytes as the destination's field held before the call; after a     *)
(* call that returned no error every byte array and byte slice is as long  *)
(* as before (an empty slice took no byte and is still empty), and the     *)
(* count is the sum of the destination's field widths, whatever the        *)
(* stream holds.                                                           *)
(***************************************************************************)
\* the plan entry the latest Read was made for
LastRead ==
    IF pc = "done" /\ (res.err # Nil \/ res.panic # "") THEN idx ELSE idx - 1

IsBytes(f) == f.kind \in {"array", "slice"}

C16_LengthFromDestination ==
    /\ (op = "unmarshal" /\ ioCalls > 0) =>
          /\ LastRead \in DOMAIN plan.fieldIndex
          /\ LET i == plan.fieldIndex[LastRead] IN
             IsBytes(typ[i]) => io.want = Len(value0[i])
    /\ (UnmarshalDone /\ plan # NilPlan /\ Succeeded) =>
          /\ \A i \in Exported(typ) :
                IsBytes(typ[i]) => Len(value[i]) = Len(value0[i])
          /\ res.n = SumWireLen(typ, value0, Exported(typ))
          /\ res.n = Len(src0) - Len(src)

\* an empty slice and a full one decoded from a stream that holds more
C16_Witness ==
    /\ UnmarshalDone /\ Succeeded
    /\ Len(typ) = 2 /\ typ[1].kind = "slice" /\ typ[2].kind = "slice"
    /\ value0[1] = <<>> /\ value[1] = <<>>
    /\ Len(value0[2]) = MaxSliceLen /\ value[2] = SubSeq(src0, 1, MaxSliceLen)
    /\ Len(src0) > MaxSliceLen

(***************************************************************************)
(* C17.  Cache entries are permanent.  No step of any interleaving of      *)
(* Marshal / Unmarshal calls removes or replaces a plan stored in          *)
(* marshalCache or unmarshalCache; and a lookup made once the plan of a    *)
(* type is stored is a hit: the call gets that very plan and builds none.  *)
(***************************************************************************)
Kept(m, after) == \A t \in DOMAIN m : t \in DOMAIN after /\ after[t] = m[t]

C17_EntriesPermanent ==
    [][/\ Kept(marshalCache, marshalCache')
       /\ Kept(unmarshalCache, unmarshalCache')
       /\ \A p \in Procs :
             (/\ gpc[p] = "loading" /\ gpc'[p] # "loading"
              /\ gcall[p].typ \in DOMAIN Cache(gcall[p].op))
                => /\ gpc'[p] = "run"
                   /\ gret'[p] = Cache(gcall[p].op)[gcall[p].typ]
                   /\ ~gcall'[p].built
                   /\ gcand'[p] = NilPlan]_vars

\* a goroutine's second call was served, without a build, the plan another
\* goroutine had stored in its first call
C17_Witness ==
    \E p \in Procs : \E q \in Procs \ {p} :
        /\ gcalls[p] = 2 /\ Returned(p) /\ ~gcall[p].built
        /\ gret[p].ptr = PlanPtr(q, 1)
        /\ gret[p] = Cache(gcall[p].op)[gcall[p].typ]

(***************************************************************************)
(* C18.  Lock discipline of the plan caches.  A goroutine holds a lock of  *)
(* a SafeMap only inside Load (the read lock) and inside LoadOrStore (the  *)
(* write lock), never while it builds a plan, so a goroutine that builds   *)
(* keeps no other from its lookup or its build.  A publish holds the       *)
(* write lock alone: in no state does it overlap another publish or a      *)
(* lookup on the same map.                                                 *)
(***************************************************************************)
LookingUp(p, c) == gpc[p] = "loading" /\ gcall[p].op = c
Publishing(p, c) == gpc[p] = "storing" /\ gcall[p].op = c
HoldsLock(p, c) == p \in mu[c].readers \/ (mu[c].writer = p /\ mu[c].held)
\* no goroutine is inside or at the door of LoadOrStore on map c
NoWriter(c) ==
    \A r \in Procs : ~(gcall[r].op = c /\ gpc[r] \in {"storeWait", "storing"})

C18_LockDiscipline ==
    /\ \A p \in Procs : \A c \in Ops :
          /\ HoldsLock(p, c) <=> (LookingUp(p, c) \/ Publishing(p, c))
          /\ LookingUp(p, c) => p \in mu[c].readers /\ ~mu[c].held
          /\ Publishing(p, c) => mu[c] = [readers |-> {}, writer |-> p, held |-> TRUE]
    /\ \A p \in Procs : \A q \in Procs \ {p} : \A c \in Ops :
          /\ ~(Publishing(p, c) /\ Publishing(q, c))
          /\ ~(Publishing(p, c) /\ LookingUp(q, c))
    /\ \A p \in Procs :
          gpc[p] = "build" =>
              /\ \A c \in Ops : ~HoldsLock(p, c)
              /\ ENABLED Build(p)
              /\ \A q \in Procs \ {p} :
                    /\ gpc[q] = "build" => ENABLED Build(q)
                    /\ (gpc[q] = "load" /\ NoWriter(gcall[q].op)) => ENABLED LoadRLock(q)

\* two lookups on the same map overlap
C18_Witness ==
    \E p \in Procs : \E q \in Procs \ {p} : \E c \in Ops :
        /\ LookingUp(p, c) /\ LookingUp(q, c)
        /\ mu[c].readers = {p, q}

(***************************************************************************)
(* C19.  Exact consumption.  An UnmarshalFromReader that returns no error  *)
(* has read exactly StructLen(destination) bytes, returns that number and  *)
(* leaves the bytes after them in the source; and Unmarshal(data, &d) on a *)
(* valid type with len(data) greater than StructLen(d) returns no error,   *)
(* the trailing bytes unread.                                              *)
(***************************************************************************)
C19_ExactConsumption ==
    /\ (UnmarshalDone /\ plan # NilPlan /\ Succeeded) =>
          /\ res.n = structLen(typ, value0).n
          /\ src = SubSeq(src0, res.n + 1, Len(src0))
    /\ (UnmarshalDone /\ rmode = "buffer" /\ shape = "ptr" /\ ValidType(typ)
          /\ Len(src0) > structLen(typ, value0).n) =>
          /\ Succeeded
          /\ Len(src) = Len(src0) - structLen(typ, value0).n

(***************************************************************************)
(* C20.  Liveness of the plan caches.  Under a fair scheduler every        *)
(* getMarshaler / getUnmarshaler call returns, with a plan or with the     *)
(* build's error; while a call is under way some goroutine can take a      *)
(* step; and a lock is held by nobody once no goroutine is inside Load or  *)
(* LoadOrStore.                                                            *)
(***************************************************************************)
InGet(p) == gpc[p] \in {"load", "loading", "build", "store", "storeWait", "storing"}
GetReturned(p) == gpc[p] \in {"run", "done"}
CanStep(p) ==
    \/ ENABLED LoadRLock(p) \/ ENABLED LoadReturn(p) \/ ENABLED Build(p)
    \/ ENABLED StoreLock(p) \/ ENABLED StoreLocked(p) \/ ENABLED StoreReturn(p)
    \/ ENABLED Run(p)
NobodyInside ==
    \A p \in Procs : gpc[p] \notin {"loading", "storeWait", "storing"}

C20_CallsReturn ==
    /\ \A p \in Procs : InGet(p) ~> GetReturned(p)
    /\ []((\E p \in Procs : InGet(p)) => \E q \in Procs : CanStep(q))
    /\ [](NobodyInside => \A c \in Ops : mu[c] = Unlocked)

\* a goroutine waits in RLock behind a writer that waits for a reader to leave
C20_Witness ==
    \E p \in Procs : \E q \in Procs \ {p} : \E c \in Ops :
        /\ gpc[p] = "storeWait" /\ gcall[p].op = c /\ mu[c].writer = p
        /\ gpc[q] = "load" /\ gcall[q].op = c
        /\ ~ENABLED LoadRLock(q)

====
